---- MODULE Spec2Model ----
(***************************************************************************)
(* Secret push/pull reconciliation, version ledger and snapshots of       *)
(* backend/src/controllers/v2/workspaceController.ts (pushSecrets,        *)
(* pullSecrets, takeSecretSnapshotHelper).                                 *)
(*                                                                         *)
(* The store is three collections kept in insertion (natural) order:      *)
(* secrets, versions (SecretVersion) and snapshots (SecretSnapshot).       *)
(* A push is a chain of awaited store operations; every await is one       *)
(* action, so that two pushes interleave exactly where the code yields.    *)
(***************************************************************************)
EXTENDS Integers, Sequences, FiniteSets, TLC

(* ------------------------------ bounds -------------------------------- *)
\* number of pushSecrets calls started in one behaviour
MaxPushes == 3
\* number of store operations that throw in one behaviour (SpecFail)
MaxFailures == 1
\* number of calls that start while another call is in flight (Spec)
MaxOverlaps == 1
\* number of entries handed to one decryptSecrets call (SpecDecrypt)
MaxEntries == 3
\* number of addMachineToWorkspace requests in one behaviour (SpecMachine)
MaxRequests == 3

(* ------------------------------ values -------------------------------- *)
SECRET_SHARED == "shared"
SECRET_PERSONAL == "personal"

Procs == {"p1", "p2"}
NoUser == "none"

Range(f) == {f[i] : i \in DOMAIN f}

\* a client-side entry of a batch (PushSecret): opaque material around the
\* two content hashes; the material of a hash h is written <<"ct", h>> etc.
PushSecret(type, hashKey, hashValue) ==
    [type            |-> type,
     ciphertextKey   |-> <<"ct", hashKey>>,
     ivKey           |-> <<"iv", hashKey>>,
     tagKey          |-> <<"tag", hashKey>>,
     hashKey         |-> hashKey,
     ciphertextValue |-> <<"ct", hashValue>>,
     ivValue         |-> <<"iv", hashValue>>,
     tagValue        |-> <<"tag", hashValue>>,
     hashValue       |-> hashValue]

\* arguments of one pushSecrets call
PushArgs(userId, workspaceId, environment, batch) ==
    [userId |-> userId, workspaceId |-> workspaceId,
     environment |-> environment, secrets |-> batch]

NoArgs == PushArgs(NoUser, "none", "none", <<>>)

(* ------------------------------ inputs -------------------------------- *)
S1 == PushSecret(SECRET_SHARED, "k1", "v1")
S2 == PushSecret(SECRET_SHARED, "k1", "v2")
S3 == PushSecret(SECRET_SHARED, "k1", "v3")
P1 == PushSecret(SECRET_PERSONAL, "k1", "v1")
T1 == PushSecret(SECRET_SHARED, "k2", "v1")

\* batches pushed to the main scope: empty, one entry (two values, two
\* types), one key-hash twice, two key-hashes
Batches == { <<>>, <<S1>>, <<S2>>, <<P1>>, <<S1, S2>>, <<P1, T1>> }

\* SpecSeq: two users on (w1, e1), plus another environment and another
\* workspace that receive one batch each
RequestsSeq ==
    { PushArgs(u, "w1", "e1", b) : u \in {"u1", "u2"}, b \in Batches }
    \cup { PushArgs("u1", "w1", "e2", <<S1>>), PushArgs("u1", "w2", "e1", <<S1>>) }

\* SpecFail: one user, two environments of one workspace, another workspace
RequestsFail ==
    { PushArgs("u1", "w1", "e1", b) : b \in { <<>>, <<S1>>, <<S2>>, <<P1, T1>> } }
    \cup { PushArgs("u1", "w1", "e2", <<S1>>), PushArgs("u1", "w2", "e1", <<S1>>) }

\* Spec (overlapping pushes): one user, one scope
RequestsConc ==
    { PushArgs("u1", "w1", "e1", b) : b \in { <<>>, <<S1>>, <<S2>>, <<S3>> } }

Workspaces == {"w1", "w2"}

(* ------------------------------- state -------------------------------- *)
VARIABLES
    secrets,      \* Secret collection, in insertion order
    versions,     \* SecretVersion collection, in insertion order
    snapshots,    \* SecretSnapshot collection, in insertion order
    nextId,       \* next fresh document id (ObjectId)
    pc,           \* per call: the await it is suspended at ("idle": no call)
    args,         \* per call: arguments of pushSecrets
    sharedSecrets,\* per call: pullSecrets' first query result
    oldSecrets,   \* per call: result of pullSecrets
    newSecrets,   \* per call: documents returned by Secret.insertMany
    snapSecrets,  \* per call: takeSecretSnapshotHelper's `secrets`
    latestSecretSnapshot, \* per call: <<>> (null) or <<document>>
    started,      \* history: number of calls started
    overlaps,     \* history: number of calls started during another call
    failures,     \* history: number of store operations that threw
    atStart,      \* history, per call that runs alone: the store at its start
    overlapped,   \* history, per call: another call was in flight during it
    snapOverlap,  \* history, per snapshot: its writer overlapped another call
    okPushes,     \* history, per workspace: pushes that returned normally
    last,         \* history: the call that finished last, if it ran alone
    dArgs,        \* decryptSecrets: its arguments { secrets, key, format }
    dState,       \* decryptSecrets: "none", "called", "returned" or "threw"
    content,      \* decryptSecrets: the content it returned
    ctl,          \* pushWorkspaceSecrets: the request handled last, what it
                  \* passed to push, its outcome, the store when it arrived
    machineMemberships, \* MachineMembership collection, in insertion order
    mpc,          \* addMachineToWorkspace, per request: the await it is at
    mreq,         \* addMachineToWorkspace, per request: the request
    mres,         \* addMachineToWorkspace, per slot: how the last request ended
    requests,     \* history: number of addMachineToWorkspace requests
    uniqueIndex   \* whether MachineMembership has a unique index on
                  \* (machineIdentity, workspace)

store == <<secrets, versions, snapshots, nextId>>
locals == <<args, sharedSecrets, oldSecrets, newSecrets, snapSecrets,
            latestSecretSnapshot>>
hist == <<started, overlaps, failures, atStart, overlapped, snapOverlap, okPushes, last>>
decrypt == <<dArgs, dState, content>>
mach == <<machineMemberships, mpc, mreq, mres, requests, uniqueIndex>>
vars == <<store, pc, locals, hist, decrypt, ctl, mach>>

StoreNow == [secrets |-> secrets, versions |-> versions, snapshots |-> snapshots]
EmptyStore == [secrets |-> <<>>, versions |-> <<>>, snapshots |-> <<>>]

(* ------------------------- store operations --------------------------- *)
\* Secret.find(filter) is SelectSeq(collection, filter): the documents that
\* match, in natural order.

\* mutant of SharedFilter: the query misses `environment`
SharedFilter_AnyEnvironment(s, workspaceId, environment) ==
    /\ s.workspace = workspaceId
    /\ s.type = SECRET_SHARED

\* pullSecrets' first query: { workspace, environment, type: SECRET_SHARED }
SharedFilter(s, workspaceId, environment) ==
    /\ s.workspace = workspaceId
    /\ s.environment = environment
    /\ s.type = SECRET_SHARED

\* mutant of PersonalFilter: the query misses `user: userId`
PersonalFilter_AnyUser(s, userId, workspaceId, environment) ==
    /\ s.workspace = workspaceId
    /\ s.environment = environment
    /\ s.type = SECRET_PERSONAL

\* pullSecrets' second query:
\* { workspace, environment, type: SECRET_PERSONAL, user: userId }
PersonalFilter(s, userId, workspaceId, environment) ==
    /\ s.workspace = workspaceId
    /\ s.environment = environment
    /\ s.type = SECRET_PERSONAL
    /\ s.user = userId

\* secrets = personalSecrets.concat(sharedSecrets)
ConcatPulled(personalSecrets, shared) == personalSecrets \o shared

\* pullSecrets run with no other write between its two queries
pullSecrets(db, userId, workspaceId, environment) ==
    ConcatPulled(
        SelectSeq(db, LAMBDA s : PersonalFilter(s, userId, workspaceId, environment)),
        SelectSeq(db, LAMBDA s : SharedFilter(s, workspaceId, environment)))

\* oldSecrets.reduce((acc, s) => ({ ...acc, [s.secretKeyHash]: s }), {}):
\* a later document replaces an earlier one with the same key-hash
oldSecretsObj(old) ==
    [k \in {old[i].secretKeyHash : i \in DOMAIN old} |->
        old[CHOOSE i \in DOMAIN old :
              /\ old[i].secretKeyHash = k
              /\ \A j \in DOMAIN old : old[j].secretKeyHash = k => j <= i]]

\* secrets.reduce((acc, s) => ({ ...acc, [s.hashKey]: s }), {})
newSecretsObj(batch) ==
    [k \in {batch[i].hashKey : i \in DOMAIN batch} |->
        batch[CHOOSE i \in DOMAIN batch :
              /\ batch[i].hashKey = k
              /\ \A j \in DOMAIN batch : batch[j].hashKey = k => j <= i]]

\* oldSecrets.filter(s => !(s.secretKeyHash in newSecretsObj))
ToDeleteDocs(old, batch) ==
    SelectSeq(old, LAMBDA s : s.secretKeyHash \notin DOMAIN newSecretsObj(batch))

\* ... .map(s => s._id)
toDelete(old, batch) ==
    [i \in DOMAIN ToDeleteDocs(old, batch) |-> ToDeleteDocs(old, batch)[i].id]

\* the filter of toUpdate: key-hash stored, and value-hash or type differs
IsUpdate(s, obj) ==
    /\ s.hashKey \in DOMAIN obj
    /\ \/ s.hashValue # obj[s.hashKey].secretValueHash
       \/ s.type # obj[s.hashKey].type

toUpdate(old, batch) ==
    SelectSeq(batch, LAMBDA s : IsUpdate(s, oldSecretsObj(old)))

\* mutant of toAdd: every entry that is not an update is inserted
toAdd_NotUpdated(old, batch) ==
    SelectSeq(batch, LAMBDA s : ~IsUpdate(s, oldSecretsObj(old)))

\* secrets.filter(s => !(s.hashKey in oldSecretsObj))
toAdd(old, batch) ==
    SelectSeq(batch, LAMBDA s : s.hashKey \notin DOMAIN oldSecretsObj(old))

\* the batch entries no step touches: stored with the same value-hash and type
unchanged(old, batch) ==
    SelectSeq(batch, LAMBDA s :
        /\ s.hashKey \in DOMAIN oldSecretsObj(old)
        /\ ~IsUpdate(s, oldSecretsObj(old)))

\* mutant of SecretDeleteMany: deleteOne, only the first match is deleted
SecretDeleteMany_One(db, ids) ==
    LET hit == {i \in DOMAIN db : db[i].id \in Range(ids)}
    IN  IF hit = {} THEN db
        ELSE LET k == CHOOSE i \in hit : \A j \in hit : i <= j
             IN  SubSeq(db, 1, k - 1) \o SubSeq(db, k + 1, Len(db))

\* Secret.deleteMany({ _id: { $in: toDelete } })
SecretDeleteMany(db, ids) == SelectSeq(db, LAMBDA s : s.id \notin Range(ids))

\* mutant of VersionUpdateMany: the rows of the deleted secrets are removed
VersionUpdateMany_Remove(rows, ids) ==
    SelectSeq(rows, LAMBDA r : r.secret \notin Range(ids))

\* SecretVersion.updateMany({ secret: { $in: toDelete } }, { isDeleted: true })
VersionUpdateMany(rows, ids) ==
    [i \in DOMAIN rows |->
        IF rows[i].secret \in Range(ids)
        THEN [rows[i] EXCEPT !.isDeleted = TRUE]
        ELSE rows[i]]

\* one element of `operations`: the updateOne built for a toUpdate entry
UpdateOp(s, obj, userId, workspaceId) ==
    [filter |-> [workspace |-> workspaceId, id |-> obj[s.hashKey].id],
     secretValueCiphertext |-> s.ciphertextValue,
     secretValueIV |-> s.ivValue,
     secretValueTag |-> s.tagValue,
     secretValueHash |-> s.hashValue,
     inc |-> 1,
     user |-> IF s.type = SECRET_PERSONAL THEN <<userId>> ELSE <<>>]

operations(old, batch, userId, workspaceId) ==
    [i \in DOMAIN toUpdate(old, batch) |->
        UpdateOp(toUpdate(old, batch)[i], oldSecretsObj(old), userId, workspaceId)]

\* mutant of ApplyUpdate: the update document carries no value material
ApplyUpdate_KeepValue(doc, op) ==
    [doc EXCEPT
        !.version = doc.version + op.inc,
        !.user = IF op.user = <<>> THEN doc.user ELSE op.user[1]]

\* the update document of an updateOne applied to the document it matched
ApplyUpdate(doc, op) ==
    [doc EXCEPT
        !.secretValueCiphertext = op.secretValueCiphertext,
        !.secretValueIV = op.secretValueIV,
        !.secretValueTag = op.secretValueTag,
        !.secretValueHash = op.secretValueHash,
        !.version = doc.version + op.inc,
        !.user = IF op.user = <<>> THEN doc.user ELSE op.user[1]]

\* updateOne: the document matching { workspace, _id }, if there is one
UpdateOne(db, op) ==
    [i \in DOMAIN db |->
        IF db[i].workspace = op.filter.workspace /\ db[i].id = op.filter.id
        THEN ApplyUpdate(db[i], op)
        ELSE db[i]]

\* Secret.bulkWrite(operations): the operations in order
RECURSIVE SecretBulkWrite(_, _)
SecretBulkWrite(db, ops) ==
    IF ops = <<>> THEN db
    ELSE SecretBulkWrite(UpdateOne(db, Head(ops)), Tail(ops))

\* the version number written for an updated secret
UpdatedVersion(oldDoc) == oldDoc.version + 1

\* the SecretVersion row appended for one toUpdate entry
UpdateVersionRow(s, obj) ==
    [secret |-> obj[s.hashKey].id,
     version |-> UpdatedVersion(obj[s.hashKey]),
     isDeleted |-> FALSE,
     secretKeyCiphertext |-> s.ciphertextKey,
     secretKeyIV |-> s.ivKey,
     secretKeyTag |-> s.tagKey,
     secretKeyHash |-> s.hashKey,
     secretValueCiphertext |-> s.ciphertextValue,
     secretValueIV |-> s.ivValue,
     secretValueTag |-> s.tagValue,
     secretValueHash |-> s.hashValue]

\* mutant of UpdateVersionRows: an update appends no row
UpdateVersionRows_None(old, batch) == <<>>

UpdateVersionRows(old, batch) ==
    [i \in DOMAIN toUpdate(old, batch) |->
        UpdateVersionRow(toUpdate(old, batch)[i], oldSecretsObj(old))]

\* version of a Secret document inserted without one (schema default)
DefaultVersion == 1

\* mutant of NewSecretDoc: the owner is attached whatever the type
NewSecretDoc_AlwaysOwner(s, id, userId, workspaceId, environment) ==
    [id |-> id,
     workspace |-> workspaceId,
     type |-> s.type,
     environment |-> environment,
     user |-> userId,
     version |-> DefaultVersion,
     secretKeyCiphertext |-> s.ciphertextKey,
     secretKeyIV |-> s.ivKey,
     secretKeyTag |-> s.tagKey,
     secretKeyHash |-> s.hashKey,
     secretValueCiphertext |-> s.ciphertextValue,
     secretValueIV |-> s.ivValue,
     secretValueTag |-> s.tagValue,
     secretValueHash |-> s.hashValue]

\* the document Secret.insertMany creates for one toAdd entry
NewSecretDoc(s, id, userId, workspaceId, environment) ==
    [id |-> id,
     workspace |-> workspaceId,
     type |-> s.type,
     environment |-> environment,
     user |-> IF s.type = "personal" THEN userId ELSE NoUser,
     version |-> DefaultVersion,
     secretKeyCiphertext |-> s.ciphertextKey,
     secretKeyIV |-> s.ivKey,
     secretKeyTag |-> s.tagKey,
     secretKeyHash |-> s.hashKey,
     secretValueCiphertext |-> s.ciphertextValue,
     secretValueIV |-> s.ivValue,
     secretValueTag |-> s.tagValue,
     secretValueHash |-> s.hashValue]

NewSecretDocs(old, batch, firstId, userId, workspaceId, environment) ==
    [i \in DOMAIN toAdd(old, batch) |->
        NewSecretDoc(toAdd(old, batch)[i], firstId + i - 1,
                     userId, workspaceId, environment)]

\* the SecretVersion row appended for one inserted document
AddVersionRow(doc) ==
    [secret |-> doc.id,
     version |-> 1,
     isDeleted |-> FALSE,
     secretKeyCiphertext |-> doc.secretKeyCiphertext,
     secretKeyIV |-> doc.secretKeyIV,
     secretKeyTag |-> doc.secretKeyTag,
     secretKeyHash |-> doc.secretKeyHash,
     secretValueCiphertext |-> doc.secretValueCiphertext,
     secretValueIV |-> doc.secretValueIV,
     secretValueTag |-> doc.secretValueTag,
     secretValueHash |-> doc.secretValueHash]

AddVersionRows(docs) == [i \in DOMAIN docs |-> AddVersionRow(docs[i])]

\* Secret.find({ workspace: workspaceId }) of takeSecretSnapshotHelper
SnapshotFilter(s, workspaceId) == s.workspace = workspaceId

\* mutant of LatestSnapshot: the sort is missing, findOne returns the first
LatestSnapshot_Unsorted(snaps, workspaceId) ==
    LET mine == {i \in DOMAIN snaps : snaps[i].workspace = workspaceId}
    IN  IF mine = {} THEN <<>>
        ELSE << snaps[CHOOSE i \in mine : \A j \in mine : i <= j] >>

\* SecretSnapshot.findOne({ workspace }).sort({ version: -1 }):
\* <<>> for null, else <<a document of the highest version>>
LatestSnapshot(snaps, workspaceId) ==
    LET mine == {i \in DOMAIN snaps : snaps[i].workspace = workspaceId}
    IN  IF mine = {} THEN <<>>
        ELSE << snaps[CHOOSE i \in mine :
                        \A j \in mine : snaps[j].version <= snaps[i].version] >>

\* mutant of NextSnapshotVersion: the increment is missing
NextSnapshotVersion_Same(latest) ==
    IF latest = <<>> THEN 1 ELSE latest[1].version

\* version of the snapshot to write
NextSnapshotVersion(latest) ==
    IF latest = <<>> THEN 1 ELSE latest[1].version + 1

NewSnapshot(workspaceId, latest, docs) ==
    [workspace |-> workspaceId,
     version |-> NextSnapshotVersion(latest),
     secrets |-> docs]

\* mutant of SnapshotSave: the save replaces the workspace's latest snapshot
SnapshotSave_Replace(snaps, doc) ==
    IF \E i \in DOMAIN snaps : snaps[i].workspace = doc.workspace
    THEN LET k == CHOOSE i \in DOMAIN snaps :
                      /\ snaps[i].workspace = doc.workspace
                      /\ \A j \in DOMAIN snaps :
                            snaps[j].workspace = doc.workspace => j <= i
         IN  [snaps EXCEPT ![k] = doc]
    ELSE Append(snaps, doc)

\* await new SecretSnapshot({...}).save(): one document is inserted
SnapshotSave(snaps, doc) == Append(snaps, doc)

\* what a store operation throws
StoreError == "store error"

\* the awaits inside takeSecretSnapshotHelper's try block
HelperSteps == {"snapFindSecrets", "snapFindLatest", "snapSave"}

\* catch (err) of takeSecretSnapshotHelper: whatever was thrown, it throws
SnapshotError == "Failed to take a secret snapshot"
HelperCatch(err) == SnapshotError

\* what the caller of pushSecrets catches
PushError == "Failed to push shared and personal secrets"

\* catch (err) of pushSecrets: whatever was thrown, it throws PushError
PushCatch(err) == PushError

\* what pushSecrets throws when the store operation awaited at `at` throws
Thrown(at) ==
    IF at \in HelperSteps
    THEN PushCatch(HelperCatch(StoreError))
    ELSE PushCatch(StoreError)

(* --------------------------- decryptSecrets --------------------------- *)
\* A text is the sequence of its characters; every plaintext below is one
\* character, none of them "=" or the newline.
Newline == "\n"
PlainKeys == {"A", "B"}
PlainValues == {"x", "y"}
SymmetricKeys == {"key1", "key2"}
Formats == {"text", "object", "expanded"}

\* what the client-side encryption of `plaintext` under `key` produces
EncryptSymmetric(plaintext, key) ==
    [ciphertext |-> <<"ct", plaintext, key>>,
     iv |-> <<"iv", plaintext>>,
     tag |-> <<"tag", plaintext, key>>]

\* decryptSymmetric({ ciphertext, iv, tag, key }): <<plaintext>>, or <<>>
\* when it throws (the tag does not verify under the key)
decryptSymmetric(ciphertext, iv, tag, key) ==
    IF tag = <<"tag", ciphertext[2], key>> /\ ciphertext[3] = key
    THEN <<ciphertext[2]>>
    ELSE <<>>

\* a PushSecret whose key and value were encrypted under `key`
EncryptedSecret(plainKey, plainValue, key) ==
    [type            |-> SECRET_SHARED,
     ciphertextKey   |-> EncryptSymmetric(plainKey, key).ciphertext,
     ivKey           |-> EncryptSymmetric(plainKey, key).iv,
     tagKey          |-> EncryptSymmetric(plainKey, key).tag,
     hashKey         |-> <<"hash", plainKey>>,
     ciphertextValue |-> EncryptSymmetric(plainValue, key).ciphertext,
     ivValue         |-> EncryptSymmetric(plainValue, key).iv,
     tagValue        |-> EncryptSymmetric(plainValue, key).tag,
     hashValue       |-> <<"hash", plainValue>>]

\* the entries handed to decryptSecrets: all encrypted under "key1"
EncryptedSecrets ==
    {EncryptedSecret(k, v, "key1") : k \in PlainKeys, v \in PlainValues}

SeqsUpTo(S, n) == UNION {[1..m -> S] : m \in 0..n}

\* the arguments of a decryptSecrets call
DecryptArgs ==
    [secrets : SeqsUpTo(EncryptedSecrets, MaxEntries),
     key : SymmetricKeys,
     format : Formats]

NoDecrypt == [secrets |-> <<>>, key |-> "none", format |-> "none"]

\* let content = format === 'text' ? '' : {}
InitContent(format) == <<>>

\* case 'text' of an entry at index idx (from 0) of a list of `length` entries
TextCase(c, secretKey, secretValue, idx, length) ==
    LET line == ((c \o <<secretKey>>) \o <<"=">>) \o <<secretValue>>
    IN  IF idx < length THEN line \o <<Newline>> ELSE line

\* mutant of ObjectCase: a key that is already there keeps its value
ObjectCase_KeepFirst(c, secretKey, secretValue) ==
    [k \in DOMAIN c \cup {secretKey} |->
        IF k \in DOMAIN c THEN c[k] ELSE secretValue]

\* case 'object': content[secretKey] = secretValue
ObjectCase(c, secretKey, secretValue) ==
    [k \in DOMAIN c \cup {secretKey} |->
        IF k = secretKey THEN secretValue ELSE c[k]]

\* case 'expanded': content[secretKey] = { ...s, plaintextKey, plaintextValue }
ExpandedCase(c, s, secretKey, secretValue) ==
    [k \in DOMAIN c \cup {secretKey} |->
        IF k = secretKey
        THEN [type |-> s.type,
              ciphertextKey |-> s.ciphertextKey, ivKey |-> s.ivKey,
              tagKey |-> s.tagKey, hashKey |-> s.hashKey,
              ciphertextValue |-> s.ciphertextValue, ivValue |-> s.ivValue,
              tagValue |-> s.tagValue, hashValue |-> s.hashValue,
              plaintextKey |-> secretKey, plaintextValue |-> secretValue]
        ELSE c[k]]

\* the body of the forEach callback for entry s at index idx; the result is
\* [threw |-> TRUE] when a decryptSymmetric throws
ForEachBody(c, s, idx, length, key, format) ==
    LET secretKey == decryptSymmetric(s.ciphertextKey, s.ivKey, s.tagKey, key)
        secretValue == decryptSymmetric(s.ciphertextValue, s.ivValue, s.tagValue, key)
    IN  IF secretKey = <<>> \/ secretValue = <<>>
        THEN [threw |-> TRUE, content |-> c]
        ELSE [threw |-> FALSE,
              content |->
                  CASE format = "text" ->
                           TextCase(c, secretKey[1], secretValue[1], idx, length)
                    [] format = "object" ->
                           ObjectCase(c, secretKey[1], secretValue[1])
                    [] format = "expanded" ->
                           ExpandedCase(c, s, secretKey[1], secretValue[1])]

\* secrets.forEach((s, idx) => ...) from entry idx + 1 on
RECURSIVE ForEach(_, _, _, _, _)
ForEach(c, entries, idx, key, format) ==
    IF idx >= Len(entries) THEN [threw |-> FALSE, content |-> c]
    ELSE LET r == ForEachBody(c, entries[idx + 1], idx, Len(entries), key, format)
         IN  IF r.threw THEN r
             ELSE ForEach(r.content, entries, idx + 1, key, format)

decryptSecrets(entries, key, format) ==
    ForEach(InitContent(format), entries, 0, key, format)

(* ------------------------ pushWorkspaceSecrets ------------------------ *)
\* the empty string
EmptyText == <<>>

\* an entry of req.body.secrets (V2PushSecret); an empty ciphertext is ""
V2PushSecret(type, hashKey, hashValue, keyCiphertext, valueCiphertext) ==
    [type                  |-> type,
     secretKeyCiphertext   |-> keyCiphertext,
     secretKeyIV           |-> <<"iv", hashKey>>,
     secretKeyTag          |-> <<"tag", hashKey>>,
     secretKeyHash         |-> hashKey,
     secretValueCiphertext |-> valueCiphertext,
     secretValueIV         |-> <<"iv", hashValue>>,
     secretValueTag        |-> <<"tag", hashValue>>,
     secretValueHash       |-> hashValue]

V2Good1 == V2PushSecret(SECRET_SHARED, "k1", "v1", <<"ct", "k1">>, <<"ct", "v1">>)
V2Good2 == V2PushSecret(SECRET_SHARED, "k2", "v1", <<"ct", "k2">>, <<"ct", "v1">>)
V2NoKey == V2PushSecret(SECRET_SHARED, "k2", "v2", EmptyText, <<"ct", "v2">>)
V2NoValue == V2PushSecret(SECRET_SHARED, "k1", "v2", <<"ct", "k1">>, EmptyText)

\* req.membership.workspace.environments
WorkspaceEnvs == << [slug |-> "e1"], [slug |-> "e2"] >>

\* a request to pushWorkspaceSecrets
PushRequest(userId, workspaceId, environment, batch) ==
    [user |-> userId, workspaceId |-> workspaceId, environment |-> environment,
     secrets |-> batch, workspaceEnvs |-> WorkspaceEnvs]

ControllerRequests ==
    { PushRequest("u1", "w1", "e1", b) :
        b \in { <<>>, <<V2Good1>>, <<V2NoKey>>, <<V2Good2, V2NoValue, V2Good1>>,
                <<V2Good1, V2NoKey, V2Good2>> } }
    \cup { PushRequest("u1", "w1", "e2", <<V2NoValue, V2Good1>>),
           PushRequest("u1", "w1", "e9", <<V2Good1>>),
           PushRequest("u1", "w1", "", <<V2Good2, V2Good1>>) }

\* workspaceEnvs.find(({ slug }) => slug === environment) is not undefined
EnvironmentFound(workspaceEnvs, environment) ==
    \E i \in DOMAIN workspaceEnvs : workspaceEnvs[i].slug = environment

EnvironmentError == "Failed to validate environment"

\* mutant of Sanitize: only the key ciphertext is tested
Sanitize_KeyOnly(batch) ==
    SelectSeq(batch, LAMBDA s : s.secretKeyCiphertext # EmptyText)

\* secrets.filter(s => s.secretKeyCiphertext !== "" && s.secretValueCiphertext !== "")
Sanitize(batch) ==
    SelectSeq(batch, LAMBDA s :
        s.secretKeyCiphertext # EmptyText /\ s.secretValueCiphertext # EmptyText)

\* the entry as the core takes it (PushSecret)
FromV2(s) ==
    [type            |-> s.type,
     ciphertextKey   |-> s.secretKeyCiphertext,
     ivKey           |-> s.secretKeyIV,
     tagKey          |-> s.secretKeyTag,
     hashKey         |-> s.secretKeyHash,
     ciphertextValue |-> s.secretValueCiphertext,
     ivValue         |-> s.secretValueIV,
     tagValue        |-> s.secretValueTag,
     hashValue       |-> s.secretValueHash]

NoCtl ==
    [req |-> PushRequest(NoUser, "none", "none", <<>>), passed |-> <<>>,
     outcome |-> "", before |-> EmptyStore]

(* ------------------------ addMachineToWorkspace ----------------------- *)
ADMIN == "admin"
MEMBER == "member"
VIEWER == "viewer"
NO_ACCESS == "no-access"
CUSTOM == "custom"

\* the MachineIdentity collection: id -> organization
MachineIdentities == [m \in {"m1", "m2"} |-> IF m = "m1" THEN "o1" ELSE "o2"]

\* the Workspace collection: id -> organization
WorkspaceOrgs == [w \in {"w1", "w2"} |-> "o1"]

\* the Role collection: slugs of the custom project roles, by workspace
CustomRoles == [w \in {"w1", "w2"} |-> IF w = "w1" THEN {"dev"} ELSE {}]

\* a request to addMachineToWorkspace; canCreate and privileged are what
\* the two permission checks find for the caller
MachineRequest(machineId, workspaceId, role, canCreate, privileged) ==
    [machineId |-> machineId, workspaceId |-> workspaceId, role |-> role,
     canCreate |-> canCreate, privileged |-> privileged]

MachineRequests ==
    { MachineRequest("m1", "w1", ADMIN, TRUE, TRUE),
      MachineRequest("m1", "w1", MEMBER, TRUE, TRUE),
      MachineRequest("m1", "w2", MEMBER, TRUE, TRUE),
      MachineRequest("m2", "w1", MEMBER, TRUE, TRUE),
      MachineRequest("m0", "w1", MEMBER, TRUE, TRUE),
      MachineRequest("m1", "w0", MEMBER, TRUE, TRUE),
      MachineRequest("m1", "w1", "dev", TRUE, TRUE),
      MachineRequest("m1", "w1", "ghost", TRUE, TRUE),
      MachineRequest("m1", "w1", ADMIN, TRUE, FALSE),
      MachineRequest("m1", "w1", MEMBER, FALSE, TRUE) }

NoMachineRequest == MachineRequest("none", "none", "none", FALSE, FALSE)

\* how a request ended: error is "" for status 200; existed tells whether a
\* membership of its pair was stored when it took its last step, created
\* whether it stored one
MachineResult(error, message, existed, created) ==
    [error |-> error, message |-> message, existed |-> existed,
     created |-> created]

NoMachineResult == MachineResult("", "", FALSE, FALSE)

\* MachineMembership.findOne({ machineIdentity, workspace }) finds a document
MembershipExists(rows, machineId, workspaceId) ==
    \E i \in DOMAIN rows :
        rows[i].machineIdentity = machineId /\ rows[i].workspace = workspaceId

\* ![ADMIN, MEMBER, VIEWER, NO_ACCESS].includes(role)
IsCustomRole(role) == role \notin {ADMIN, MEMBER, VIEWER, NO_ACCESS}

\* new MachineMembership({ machineIdentity, workspace, role, customRole })
NewMachineMembership(r) ==
    [machineIdentity |-> r.machineId,
     workspace |-> r.workspaceId,
     role |-> IF IsCustomRole(r.role) THEN CUSTOM ELSE r.role,
     customRole |-> IF IsCustomRole(r.role) THEN r.role ELSE ""]

(* ------------------------------- Init --------------------------------- *)
NoLast ==
    [args |-> NoArgs, ok |-> FALSE, error |-> "", at |-> "",
     before |-> EmptyStore, prev |-> NoArgs, noop |-> FALSE]

Init ==
    /\ secrets = <<>>
    /\ versions = <<>>
    /\ snapshots = <<>>
    /\ nextId = 1
    /\ pc = [p \in Procs |-> "idle"]
    /\ args = [p \in Procs |-> NoArgs]
    /\ sharedSecrets = [p \in Procs |-> <<>>]
    /\ oldSecrets = [p \in Procs |-> <<>>]
    /\ newSecrets = [p \in Procs |-> <<>>]
    /\ snapSecrets = [p \in Procs |-> <<>>]
    /\ latestSecretSnapshot = [p \in Procs |-> <<>>]
    /\ started = 0
    /\ overlaps = 0
    /\ failures = 0
    /\ atStart = [p \in Procs |-> EmptyStore]
    /\ overlapped = [p \in Procs |-> FALSE]
    /\ snapOverlap = <<>>
    /\ okPushes = [w \in Workspaces |-> 0]
    /\ last = NoLast
    /\ dArgs = NoDecrypt
    /\ dState = "none"
    /\ content = <<>>
    /\ ctl = NoCtl
    /\ machineMemberships = <<>>
    /\ mpc = [p \in Procs |-> "idle"]
    /\ mreq = [p \in Procs |-> NoMachineRequest]
    /\ mres = [p \in Procs |-> NoMachineResult]
    /\ requests = 0
    /\ uniqueIndex = FALSE

\* decryptSecrets is called on any list of entries, with either key, in any
\* format; the store plays no part
InitDecrypt ==
    /\ secrets = <<>>
    /\ versions = <<>>
    /\ snapshots = <<>>
    /\ nextId = 1
    /\ pc = [p \in Procs |-> "idle"]
    /\ args = [p \in Procs |-> NoArgs]
    /\ sharedSecrets = [p \in Procs |-> <<>>]
    /\ oldSecrets = [p \in Procs |-> <<>>]
    /\ newSecrets = [p \in Procs |-> <<>>]
    /\ snapSecrets = [p \in Procs |-> <<>>]
    /\ latestSecretSnapshot = [p \in Procs |-> <<>>]
    /\ started = 0
    /\ overlaps = 0
    /\ failures = 0
    /\ atStart = [p \in Procs |-> EmptyStore]
    /\ overlapped = [p \in Procs |-> FALSE]
    /\ snapOverlap = <<>>
    /\ okPushes = [w \in Workspaces |-> 0]
    /\ last = NoLast
    /\ dArgs \in DecryptArgs
    /\ dState = "called"
    /\ content = <<>>
    /\ ctl = NoCtl
    /\ machineMemberships = <<>>
    /\ mpc = [p \in Procs |-> "idle"]
    /\ mreq = [p \in Procs |-> NoMachineRequest]
    /\ mres = [p \in Procs |-> NoMachineResult]
    /\ requests = 0
    /\ uniqueIndex = FALSE

(* ------------------------- pushSecrets, by await ---------------------- *)
\* the classification of call p, from its locals
ToDeleteOf(p) == toDelete(oldSecrets[p], args[p].secrets)
ToUpdateOf(p) == toUpdate(oldSecrets[p], args[p].secrets)
ToAddOf(p) == toAdd(oldSecrets[p], args[p].secrets)

\* a request arrives: pushSecrets is called and suspends at its first query
StartPush(p, Requests) ==
    /\ pc[p] = "idle"
    /\ started < MaxPushes
    /\ \E r \in Requests : args' = [args EXCEPT ![p] = r]
    /\ pc' = [pc EXCEPT ![p] = "findShared"]
    /\ started' = started + 1
    /\ IF \E o \in Procs \ {p} : pc[o] # "idle"
       THEN overlaps < MaxOverlaps /\ overlaps' = overlaps + 1
       ELSE overlaps' = overlaps
    /\ atStart' = [q \in Procs |->
          IF \E o \in Procs \ {p} : pc[o] # "idle" THEN EmptyStore
          ELSE IF q = p THEN StoreNow ELSE atStart[q]]
    /\ overlapped' =
          [q \in Procs |->
              IF q = p THEN \E o \in Procs \ {p} : pc[o] # "idle"
              ELSE IF pc[q] # "idle" THEN TRUE ELSE overlapped[q]]
    /\ UNCHANGED <<store, sharedSecrets, oldSecrets, newSecrets, snapSecrets,
                   latestSecretSnapshot, failures, snapOverlap, okPushes, last,
                   decrypt, ctl, mach>>

\* a request arrives while no other push is in flight
StartPushAlone(p, Requests) ==
    /\ \A q \in Procs : pc[q] = "idle"
    /\ StartPush(p, Requests)

\* pullSecrets: Secret.find of the shared secrets
FindShared(p) ==
    /\ pc[p] = "findShared"
    /\ sharedSecrets' = [sharedSecrets EXCEPT ![p] =
          SelectSeq(secrets, LAMBDA s :
              SharedFilter(s, args[p].workspaceId, args[p].environment))]
    /\ pc' = [pc EXCEPT ![p] = "findPersonal"]
    /\ UNCHANGED <<store, args, oldSecrets, newSecrets, snapSecrets,
                   latestSecretSnapshot, hist, decrypt, ctl, mach>>

\* pullSecrets: Secret.find of the personal secrets, concat, return; then the
\* synchronous part of pushSecrets up to its next await
FindPersonal(p) ==
    /\ pc[p] = "findPersonal"
    /\ LET old == ConcatPulled(
                      SelectSeq(secrets, LAMBDA s :
                          PersonalFilter(s, args[p].userId, args[p].workspaceId,
                                         args[p].environment)),
                      sharedSecrets[p])
       IN  /\ oldSecrets' = [oldSecrets EXCEPT ![p] = old]
           /\ pc' = [pc EXCEPT ![p] =
                  IF Len(toDelete(old, args[p].secrets)) > 0
                  THEN "deleteMany" ELSE "bulkWrite"]
    /\ UNCHANGED <<store, args, sharedSecrets, newSecrets, snapSecrets,
                   latestSecretSnapshot, hist, decrypt, ctl, mach>>

\* await Secret.deleteMany({ _id: { $in: toDelete } })
DeleteMany(p) ==
    /\ pc[p] = "deleteMany"
    /\ secrets' = SecretDeleteMany(secrets, ToDeleteOf(p))
    /\ pc' = [pc EXCEPT ![p] = "flagVersions"]
    /\ UNCHANGED <<versions, snapshots, nextId, locals, hist, decrypt, ctl, mach>>

\* await SecretVersion.updateMany({ secret: { $in: toDelete } }, ...)
FlagVersions(p) ==
    /\ pc[p] = "flagVersions"
    /\ versions' = VersionUpdateMany(versions, ToDeleteOf(p))
    /\ pc' = [pc EXCEPT ![p] = "bulkWrite"]
    /\ UNCHANGED <<secrets, snapshots, nextId, locals, hist, decrypt, ctl, mach>>

\* await Secret.bulkWrite(operations)
BulkWrite(p) ==
    /\ pc[p] = "bulkWrite"
    /\ secrets' = SecretBulkWrite(secrets,
          operations(oldSecrets[p], args[p].secrets,
                     args[p].userId, args[p].workspaceId))
    /\ pc' = [pc EXCEPT ![p] = "insertUpdatedVersions"]
    /\ UNCHANGED <<versions, snapshots, nextId, locals, hist, decrypt, ctl, mach>>

\* await SecretVersion.insertMany(toUpdate.map(...)); then toAdd is computed
InsertUpdatedVersions(p) ==
    /\ pc[p] = "insertUpdatedVersions"
    /\ versions' = versions \o UpdateVersionRows(oldSecrets[p], args[p].secrets)
    /\ pc' = [pc EXCEPT ![p] =
          IF Len(ToAddOf(p)) > 0 THEN "insertSecrets" ELSE "snapFindSecrets"]
    /\ UNCHANGED <<secrets, snapshots, nextId, locals, hist, decrypt, ctl, mach>>

\* const newSecrets = await Secret.insertMany(toAdd.map(...))
InsertSecrets(p) ==
    /\ pc[p] = "insertSecrets"
    /\ LET docs == NewSecretDocs(oldSecrets[p], args[p].secrets, nextId,
                                 args[p].userId, args[p].workspaceId,
                                 args[p].environment)
       IN  /\ secrets' = secrets \o docs
           /\ newSecrets' = [newSecrets EXCEPT ![p] = docs]
           /\ nextId' = nextId + Len(docs)
    /\ pc' = [pc EXCEPT ![p] = "insertAddedVersions"]
    /\ UNCHANGED <<versions, snapshots, args, sharedSecrets, oldSecrets,
                   snapSecrets, latestSecretSnapshot, hist, decrypt, ctl, mach>>

\* await SecretVersion.insertMany(newSecrets.map(...))
InsertAddedVersions(p) ==
    /\ pc[p] = "insertAddedVersions"
    /\ versions' = versions \o AddVersionRows(newSecrets[p])
    /\ pc' = [pc EXCEPT ![p] = "snapFindSecrets"]
    /\ UNCHANGED <<secrets, snapshots, nextId, locals, hist, decrypt, ctl, mach>>

\* takeSecretSnapshotHelper: const secrets = await Secret.find({ workspace })
SnapFindSecrets(p) ==
    /\ pc[p] = "snapFindSecrets"
    /\ snapSecrets' = [snapSecrets EXCEPT ![p] =
          SelectSeq(secrets, LAMBDA s : SnapshotFilter(s, args[p].workspaceId))]
    /\ pc' = [pc EXCEPT ![p] = "snapFindLatest"]
    /\ UNCHANGED <<store, args, sharedSecrets, oldSecrets, newSecrets,
                   latestSecretSnapshot, hist, decrypt, ctl, mach>>

\* takeSecretSnapshotHelper: await SecretSnapshot.findOne(...).sort(...)
SnapFindLatest(p) ==
    /\ pc[p] = "snapFindLatest"
    /\ latestSecretSnapshot' = [latestSecretSnapshot EXCEPT ![p] =
          LatestSnapshot(snapshots, args[p].workspaceId)]
    /\ pc' = [pc EXCEPT ![p] = "snapSave"]
    /\ UNCHANGED <<store, args, sharedSecrets, oldSecrets, newSecrets,
                   snapSecrets, hist, decrypt, ctl, mach>>

\* the call of p is over: its locals are gone, the history records it
Return(p, ok) ==
    /\ pc' = [pc EXCEPT ![p] = "idle"]
    /\ args' = [args EXCEPT ![p] = NoArgs]
    /\ sharedSecrets' = [sharedSecrets EXCEPT ![p] = <<>>]
    /\ oldSecrets' = [oldSecrets EXCEPT ![p] = <<>>]
    /\ newSecrets' = [newSecrets EXCEPT ![p] = <<>>]
    /\ snapSecrets' = [snapSecrets EXCEPT ![p] = <<>>]
    /\ latestSecretSnapshot' = [latestSecretSnapshot EXCEPT ![p] = <<>>]
    /\ atStart' = [atStart EXCEPT ![p] = EmptyStore]
    /\ overlapped' = [overlapped EXCEPT ![p] = FALSE]
    /\ okPushes' = IF ok
                   THEN [okPushes EXCEPT ![args[p].workspaceId] = @ + 1]
                   ELSE okPushes
    /\ last' = IF overlapped[p] THEN NoLast
               ELSE [args |-> args[p],
                     ok |-> ok,
                     error |-> IF ok THEN "" ELSE Thrown(pc[p]),
                     at |-> IF ok THEN "" ELSE pc[p],
                     before |-> atStart[p],
                     prev |-> IF last.ok THEN last.args ELSE NoArgs,
                     noop |-> /\ ToDeleteOf(p) = <<>>
                              /\ ToUpdateOf(p) = <<>>
                              /\ ToAddOf(p) = <<>>]

\* takeSecretSnapshotHelper: await new SecretSnapshot({...}).save(); the helper
\* and pushSecrets then return
SnapSave(p) ==
    /\ pc[p] = "snapSave"
    /\ snapshots' = SnapshotSave(snapshots,
          NewSnapshot(args[p].workspaceId, latestSecretSnapshot[p], snapSecrets[p]))
    /\ snapOverlap' = Append(snapOverlap, overlapped[p])
    /\ Return(p, TRUE)
    /\ UNCHANGED <<secrets, versions, nextId, started, overlaps, failures, decrypt, ctl, mach>>

\* the store operation p awaits throws: the catch of pushSecrets (and, inside
\* the helper, the helper's catch first) rethrows one generic error
Fail(p) ==
    /\ pc[p] # "idle"
    /\ failures < MaxFailures
    /\ failures' = failures + 1
    /\ Return(p, FALSE)
    /\ UNCHANGED <<store, started, overlaps, snapOverlap, decrypt, ctl, mach>>

Step(p) ==
    \/ FindShared(p)
    \/ FindPersonal(p)
    \/ DeleteMany(p)
    \/ FlagVersions(p)
    \/ BulkWrite(p)
    \/ InsertUpdatedVersions(p)
    \/ InsertSecrets(p)
    \/ InsertAddedVersions(p)
    \/ SnapFindSecrets(p)
    \/ SnapFindLatest(p)
    \/ SnapSave(p)

(* --------------------------- specifications --------------------------- *)
\* a new call takes the first free slot
FreeSlot(p) == p = "p1" \/ pc["p1"] # "idle"

\* overlapping pushes: two calls interleave at their awaits
Next ==
    \/ \E p \in Procs : FreeSlot(p) /\ StartPush(p, RequestsConc)
    \/ \E p \in Procs : Step(p)

Spec == Init /\ [][Next]_vars

\* pushes one after another, no store operation throws
NextSeq ==
    \/ StartPushAlone("p1", RequestsSeq)
    \/ Step("p1")

SpecSeq == Init /\ [][NextSeq]_vars

\* pushes one after another, store operations may throw
NextFail ==
    \/ StartPushAlone("p1", RequestsFail)
    \/ Step("p1")
    \/ Fail("p1")

SpecFail == Init /\ [][NextFail]_vars

\* pushWorkspaceSecrets receives a request while no push is in flight: it
\* throws when the environment is not one of the workspace's, else it
\* sanitizes the batch and calls push, which suspends at its first query
PushWorkspaceSecrets(p) ==
    /\ \A q \in Procs : pc[q] = "idle"
    /\ started < MaxPushes
    /\ started' = started + 1
    /\ \E req \in ControllerRequests :
          IF ~EnvironmentFound(req.workspaceEnvs, req.environment)
          THEN /\ ctl' = [req |-> req, passed |-> <<>>,
                         outcome |-> EnvironmentError, before |-> StoreNow]
               /\ UNCHANGED <<pc, args, atStart>>
          ELSE /\ ctl' = [req |-> req, passed |-> Sanitize(req.secrets),
                         outcome |-> "push", before |-> StoreNow]
               /\ args' = [args EXCEPT ![p] =
                      PushArgs(req.user, req.workspaceId, req.environment,
                               [i \in DOMAIN Sanitize(req.secrets) |->
                                   FromV2(Sanitize(req.secrets)[i])])]
               /\ pc' = [pc EXCEPT ![p] = "findShared"]
               /\ atStart' = [atStart EXCEPT ![p] = StoreNow]
    /\ UNCHANGED <<store, sharedSecrets, oldSecrets, newSecrets, snapSecrets,
                   latestSecretSnapshot, overlaps, failures, overlapped,
                   snapOverlap, okPushes, last, decrypt, mach>>

\* requests to the controller one after another, no store operation throws
NextCtl ==
    \/ PushWorkspaceSecrets("p1")
    \/ Step("p1")

SpecCtl == Init /\ [][NextCtl]_vars

\* addMachineToWorkspace runs against an empty MachineMembership collection
\* that has, or has not, the unique index
InitMachine ==
    /\ secrets = <<>>
    /\ versions = <<>>
    /\ snapshots = <<>>
    /\ nextId = 1
    /\ pc = [p \in Procs |-> "idle"]
    /\ args = [p \in Procs |-> NoArgs]
    /\ sharedSecrets = [p \in Procs |-> <<>>]
    /\ oldSecrets = [p \in Procs |-> <<>>]
    /\ newSecrets = [p \in Procs |-> <<>>]
    /\ snapSecrets = [p \in Procs |-> <<>>]
    /\ latestSecretSnapshot = [p \in Procs |-> <<>>]
    /\ started = 0
    /\ overlaps = 0
    /\ failures = 0
    /\ atStart = [p \in Procs |-> EmptyStore]
    /\ overlapped = [p \in Procs |-> FALSE]
    /\ snapOverlap = <<>>
    /\ okPushes = [w \in Workspaces |-> 0]
    /\ last = NoLast
    /\ dArgs = NoDecrypt
    /\ dState = "none"
    /\ content = <<>>
    /\ ctl = NoCtl
    /\ machineMemberships = <<>>
    /\ mpc = [p \in Procs |-> "idle"]
    /\ mreq = [p \in Procs |-> NoMachineRequest]
    /\ mres = [p \in Procs |-> NoMachineResult]
    /\ requests = 0
    /\ uniqueIndex \in BOOLEAN

\* request p ends: with an error thrown, or with status 200
MachineEnd(p, error, message, created) ==
    /\ mpc' = [mpc EXCEPT ![p] = "idle"]
    /\ mreq' = [mreq EXCEPT ![p] = NoMachineRequest]
    /\ mres' = [mres EXCEPT ![p] =
          MachineResult(error, message,
              MembershipExists(machineMemberships, mreq[p].machineId,
                               mreq[p].workspaceId),
              created)]

\* a request arrives; validateRequest, getAuthDataProjectPermissions and
\* throwUnlessCan run, then the handler awaits MachineMembership.findOne
AddMachineToWorkspace(p) ==
    /\ mpc[p] = "idle"
    /\ requests < MaxRequests
    /\ requests' = requests + 1
    /\ \E r \in MachineRequests :
          IF r.canCreate
          THEN /\ mpc' = [mpc EXCEPT ![p] = "findMembership"]
               /\ mreq' = [mreq EXCEPT ![p] = r]
               /\ mres' = [mres EXCEPT ![p] = NoMachineResult]
          ELSE /\ mpc' = mpc
               /\ mreq' = mreq
               /\ mres' = [mres EXCEPT ![p] =
                      MachineResult("ForbiddenError", "", 
                          MembershipExists(machineMemberships, r.machineId,
                                           r.workspaceId),
                          FALSE)]
    /\ UNCHANGED <<store, pc, locals, hist, decrypt, ctl, machineMemberships,
                   uniqueIndex>>

\* await MachineMembership.findOne(...); if (machineMembership) throw
FindMembership(p) ==
    /\ mpc[p] = "findMembership"
    /\ IF MembershipExists(machineMemberships, mreq[p].machineId, mreq[p].workspaceId)
       THEN MachineEnd(p, "BadRequestError", "already exists", FALSE)
       ELSE /\ mpc' = [mpc EXCEPT ![p] = "findIdentity"]
            /\ UNCHANGED <<mreq, mres>>
    /\ UNCHANGED <<store, pc, locals, hist, decrypt, ctl, machineMemberships,
                   requests, uniqueIndex>>

\* await MachineIdentity.findById(machineId); if (!machineIdentity) throw
FindIdentity(p) ==
    /\ mpc[p] = "findIdentity"
    /\ IF mreq[p].machineId \notin DOMAIN MachineIdentities
       THEN MachineEnd(p, "ResourceNotFoundError", "machine identity", FALSE)
       ELSE /\ mpc' = [mpc EXCEPT ![p] = "findWorkspace"]
            /\ UNCHANGED <<mreq, mres>>
    /\ UNCHANGED <<store, pc, locals, hist, decrypt, ctl, machineMemberships,
                   requests, uniqueIndex>>

\* await Workspace.findById(workspaceId); the two throws that follow
FindWorkspace(p) ==
    /\ mpc[p] = "findWorkspace"
    /\ IF mreq[p].workspaceId \notin DOMAIN WorkspaceOrgs
       THEN MachineEnd(p, "ResourceNotFoundError", "", FALSE)
       ELSE IF MachineIdentities[mreq[p].machineId] # WorkspaceOrgs[mreq[p].workspaceId]
       THEN MachineEnd(p, "BadRequestError", "another organization", FALSE)
       ELSE /\ mpc' = [mpc EXCEPT ![p] = "rolePermission"]
            /\ UNCHANGED <<mreq, mres>>
    /\ UNCHANGED <<store, pc, locals, hist, decrypt, ctl, machineMemberships,
                   requests, uniqueIndex>>

\* await getWorkspaceRolePermissions(role, workspaceId); the privilege test;
\* for a custom role the handler goes on to await Role.findOne
RolePermission(p) ==
    /\ mpc[p] = "rolePermission"
    /\ IF ~mreq[p].privileged
       THEN MachineEnd(p, "ForbiddenRequestError", "more privileged role", FALSE)
       ELSE /\ mpc' = [mpc EXCEPT ![p] =
                   IF IsCustomRole(mreq[p].role) THEN "findRole" ELSE "save"]
            /\ UNCHANGED <<mreq, mres>>
    /\ UNCHANGED <<store, pc, locals, hist, decrypt, ctl, machineMemberships,
                   requests, uniqueIndex>>

\* customRole = await Role.findOne({ slug: role, isOrgRole: false, workspace })
FindRole(p) ==
    /\ mpc[p] = "findRole"
    /\ IF mreq[p].role \notin CustomRoles[mreq[p].workspaceId]
       THEN MachineEnd(p, "BadRequestError", "Role not found", FALSE)
       ELSE /\ mpc' = [mpc EXCEPT ![p] = "save"]
            /\ UNCHANGED <<mreq, mres>>
    /\ UNCHANGED <<store, pc, locals, hist, decrypt, ctl, machineMemberships,
                   requests, uniqueIndex>>

\* await new MachineMembership({...}).save(): rejected by the store only
\* when the collection has a unique index on the pair and the pair is there
SaveMembership(p) ==
    /\ mpc[p] = "save"
    /\ IF uniqueIndex /\ MembershipExists(machineMemberships, mreq[p].machineId,
                                          mreq[p].workspaceId)
       THEN /\ MachineEnd(p, "MongoServerError", "duplicate key", FALSE)
            /\ UNCHANGED machineMemberships
       ELSE /\ machineMemberships' =
                  Append(machineMemberships, NewMachineMembership(mreq[p]))
            /\ MachineEnd(p, "", "", TRUE)
    /\ UNCHANGED <<store, pc, locals, hist, decrypt, ctl, requests, uniqueIndex>>

\* overlapping requests to addMachineToWorkspace
NextMachine ==
    \E p \in Procs :
        \/ AddMachineToWorkspace(p)
        \/ FindMembership(p)
        \/ FindIdentity(p)
        \/ FindWorkspace(p)
        \/ RolePermission(p)
        \/ FindRole(p)
        \/ SaveMembership(p)

SpecMachine == InitMachine /\ [][NextMachine]_vars

\* decryptSecrets runs to its return statement
DecryptReturns ==
    /\ dState = "called"
    /\ ~decryptSecrets(dArgs.secrets, dArgs.key, dArgs.format).threw
    /\ content' = decryptSecrets(dArgs.secrets, dArgs.key, dArgs.format).content
    /\ dState' = "returned"
    /\ UNCHANGED <<store, pc, locals, hist, dArgs, ctl, mach>>

\* a decryptSymmetric inside decryptSecrets throws
DecryptThrows ==
    /\ dState = "called"
    /\ decryptSecrets(dArgs.secrets, dArgs.key, dArgs.format).threw
    /\ dState' = "threw"
    /\ UNCHANGED <<store, pc, locals, hist, dArgs, content, ctl, mach>>

NextDecrypt ==
    \/ DecryptReturns
    \/ DecryptThrows

SpecDecrypt == InitDecrypt /\ [][NextDecrypt]_vars

(* ------------------------------ claims -------------------------------- *)
Idle == \A p \in Procs : pc[p] = "idle"

\* call p holds the result of pullSecrets
Fetched(p) == pc[p] \notin {"idle", "findShared", "findPersonal"}

KeyHashesOfBatch(batch) == {batch[i].hashKey : i \in DOMAIN batch}
KeyHashesOfDocs(docs) == {docs[i].secretKeyHash : i \in DOMAIN docs}
NoRepeat(seq) == \A i, j \in DOMAIN seq : i # j => seq[i] # seq[j]
KeySeqOfBatch(batch) == [i \in DOMAIN batch |-> batch[i].hashKey]
KeySeqOfDocs(docs) == [i \in DOMAIN docs |-> docs[i].secretKeyHash]

\* the push that finished last ran alone, returned normally, and had the
\* arguments of the push that returned normally right before it
RepeatedPush ==
    /\ Idle
    /\ last.ok
    /\ last.args # NoArgs
    /\ last.prev = last.args

\* C1 (as claimed): a push repeated with the identical batch, no other write
\* in between, deletes, updates and inserts no Secret and inserts no
\* SecretVersion row: both collections are as they were before it.
C1_RepeatedPushWritesNothing ==
    RepeatedPush =>
        /\ secrets = last.before.secrets
        /\ versions = last.before.versions

Count(e, seq) == Cardinality({i \in DOMAIN seq : seq[i] = e})

\* toDelete holds the ids of the stored secrets of the scope whose key-hash
\* is not in the batch
DeleteIsScopeMinusBatch(old, batch) ==
    Range(toDelete(old, batch)) =
        {old[i].id : i \in {j \in DOMAIN old :
                              old[j].secretKeyHash \notin KeyHashesOfBatch(batch)}}

\* every entry of the batch is in exactly one of toAdd, toUpdate, unchanged,
\* and these hold nothing else
BatchIsSplit(old, batch) ==
    /\ Range(toAdd(old, batch)) \cup Range(toUpdate(old, batch))
          \cup Range(unchanged(old, batch)) = Range(batch)
    /\ \A e \in Range(batch) :
          Count(e, batch) = Count(e, toAdd(old, batch))
                            + Count(e, toUpdate(old, batch))
                            + Count(e, unchanged(old, batch))

\* the key-hashes of the four categories, one after the other
CategoryKeys(old, batch) ==
    KeySeqOfDocs(ToDeleteDocs(old, batch))
        \o KeySeqOfBatch(toUpdate(old, batch))
        \o KeySeqOfBatch(toAdd(old, batch))
        \o KeySeqOfBatch(unchanged(old, batch))

\* C2 (as claimed): toDelete is the stored scope minus the batch, toAdd,
\* toUpdate and unchanged together are the batch, and no key-hash is in two
\* categories or twice in one.
C2_DiffPartitionsByKeyHash ==
    \A p \in Procs : Fetched(p) =>
        /\ DeleteIsScopeMinusBatch(oldSecrets[p], args[p].secrets)
        /\ BatchIsSplit(oldSecrets[p], args[p].secrets)
        /\ NoRepeat(CategoryKeys(oldSecrets[p], args[p].secrets))

\* C2 (amended): toDelete is the stored scope minus the batch, each document
\* once; every batch entry is in exactly one of toAdd, toUpdate, unchanged;
\* a key-hash of toDelete is in no other category and a key-hash of toAdd is
\* neither in toUpdate nor in unchanged; and when the batch repeats no
\* key-hash, no key-hash is in two of toAdd, toUpdate, unchanged or twice in
\* one of them.
C2_DiffCorrect ==
    \A p \in Procs : Fetched(p) =>
        LET old == oldSecrets[p]
            batch == args[p].secrets
            inBatch == KeySeqOfBatch(toUpdate(old, batch))
                          \o KeySeqOfBatch(toAdd(old, batch))
                          \o KeySeqOfBatch(unchanged(old, batch))
        IN  /\ DeleteIsScopeMinusBatch(old, batch)
            /\ NoRepeat(toDelete(old, batch))
            /\ BatchIsSplit(old, batch)
            /\ KeyHashesOfDocs(ToDeleteDocs(old, batch)) \cap Range(inBatch) = {}
            /\ KeyHashesOfBatch(toAdd(old, batch))
                  \cap (KeyHashesOfBatch(toUpdate(old, batch))
                        \cup KeyHashesOfBatch(unchanged(old, batch))) = {}
            /\ NoRepeat(KeySeqOfBatch(batch)) => NoRepeat(inBatch)

\* C2 witness: a push whose diff deletes one stored secret and updates another
C2_Witness ==
    \E p \in Procs :
        /\ Fetched(p)
        /\ toDelete(oldSecrets[p], args[p].secrets) # <<>>
        /\ toUpdate(oldSecrets[p], args[p].secrets) # <<>>

\* the SecretVersion rows of one Secret
RowsOf(id) == SelectSeq(versions, LAMBDA r : r.secret = id)

\* C3 (as claimed): once the pushes so far have run to completion one after
\* another, the SecretVersion rows of every existing Secret carry the version
\* numbers 1..n, each once, and n is the Secret's version field.
C3_VersionsContiguous ==
    Idle =>
        \A i \in DOMAIN secrets :
            LET rows == RowsOf(secrets[i].id)
            IN  /\ Len(rows) = secrets[i].version
                /\ {rows[j].version : j \in DOMAIN rows} = 1..secrets[i].version

\* the owner-scope of a Secret: shared, or personal of one user
OwnerScope(s) == IF s.type = SECRET_SHARED THEN SECRET_SHARED ELSE s.user

\* C8 (as claimed): no two Secret rows of one workspace, environment and
\* owner-scope have the same key content-hash.
C8_KeyHashUnique ==
    \A i, j \in DOMAIN secrets :
        ( /\ i # j
          /\ secrets[i].workspace = secrets[j].workspace
          /\ secrets[i].environment = secrets[j].environment
          /\ OwnerScope(secrets[i]) = OwnerScope(secrets[j]) )
        => secrets[i].secretKeyHash # secrets[j].secretKeyHash

\* the snapshots of one workspace, oldest first
SnapshotsOf(w) == SelectSeq(snapshots, LAMBDA s : s.workspace = w)

\* the push that finished last returned normally (and ran alone)
PushReturned == Idle /\ last.ok

\* C4: with pushes one after another, the k-th push of a workspace that
\* returns normally writes the snapshot with version k, and that snapshot
\* lists the Secret rows of the workspace, of all environments, as the push
\* leaves them.
C4_SnapshotMonotone ==
    /\ \A w \in Workspaces :
          /\ Len(SnapshotsOf(w)) = okPushes[w]
          /\ \A k \in DOMAIN SnapshotsOf(w) : SnapshotsOf(w)[k].version = k
    /\ PushReturned =>
          LET w == last.args.workspaceId
              newest == snapshots[Len(snapshots)]
          IN  /\ newest.workspace = w
              /\ newest.version = okPushes[w]
              /\ Range(newest.secrets) = {s \in Range(secrets) : s.workspace = w}
              /\ NoRepeat(newest.secrets)

\* C4 witness: after a push that threw, the second successful push of w1 has
\* written a snapshot listing secrets of two environments
C4_Witness ==
    /\ PushReturned
    /\ failures > 0
    /\ okPushes["w1"] = 2
    /\ last.args.workspaceId = "w1"
    /\ Cardinality({s.environment : s \in Range(snapshots[Len(snapshots)].secrets)}) > 1

\* the push that finished last threw (and ran alone)
PushThrew == Idle /\ last.args # NoArgs /\ ~last.ok

\* C5 (as claimed): a push in which a store operation fails raises one error
\* and leaves the Secret, SecretVersion and SecretSnapshot collections as
\* they were when it started.
C5_FailedPushChangesNothing ==
    PushThrew =>
        /\ last.error = PushError
        /\ secrets = last.before.secrets
        /\ versions = last.before.versions
        /\ snapshots = last.before.snapshots

\* C6 (as claimed): a push that returns normally has added exactly one
\* snapshot, of its workspace; when its diff was empty, the snapshot lists
\* what the previous snapshot of the workspace lists.
C6_OneSnapshotPerPush ==
    PushReturned =>
        LET w == last.args.workspaceId
            previous == LatestSnapshot(last.before.snapshots, w)
        IN  /\ Len(snapshots) = Len(last.before.snapshots) + 1
            /\ snapshots[Len(snapshots)].workspace = w
            /\ (last.noop /\ previous # <<>>) =>
                  snapshots[Len(snapshots)].secrets = previous[1].secrets

\* the secrets a user may see in one workspace and environment
VisibleTo(db, userId, workspaceId, environment) ==
    {s \in Range(db) :
        /\ s.workspace = workspaceId
        /\ s.environment = environment
        /\ \/ s.type = SECRET_SHARED
           \/ s.type = SECRET_PERSONAL /\ s.user = userId}

\* call p holds the result of pullSecrets and nothing was written since
JustPulled(p) == Fetched(p) /\ secrets = atStart[p].secrets

\* C7: pullSecrets returns the shared secrets of the workspace and
\* environment and the caller's personal ones there, each once, personal
\* before shared, and nothing else.
C7_PullReturnsScope ==
    \A p \in Procs : JustPulled(p) =>
        LET r == oldSecrets[p]
        IN  /\ Range(r) = VisibleTo(secrets, args[p].userId,
                                    args[p].workspaceId, args[p].environment)
            /\ NoRepeat(r)
            /\ \A i, j \in DOMAIN r :
                  (r[i].type = SECRET_PERSONAL /\ r[j].type = SECRET_SHARED)
                  => i < j

\* C7 witness: a pull that returned a personal and a shared secret while the
\* same workspace and environment held a personal secret of another user
C7_Witness ==
    \E p \in Procs :
        /\ JustPulled(p)
        /\ \E i, j \in DOMAIN oldSecrets[p] :
              /\ oldSecrets[p][i].type = SECRET_PERSONAL
              /\ oldSecrets[p][j].type = SECRET_SHARED
        /\ \E s \in Range(secrets) :
              /\ s.workspace = args[p].workspaceId
              /\ s.environment = args[p].environment
              /\ s.type = SECRET_PERSONAL
              /\ s.user # args[p].userId

\* C9 (as claimed), read at the states in which no push is in flight, where
\* an orphan is there to stay: every SecretVersion row whose isDeleted flag
\* is false refers to a Secret row that exists.
C9_NoOrphanVersionRows ==
    Idle =>
        \A i \in DOMAIN versions :
            ~versions[i].isDeleted =>
                \E j \in DOMAIN secrets : secrets[j].id = versions[i].secret

\* two snapshots of one workspace carry the same version
Collision(i, j) ==
    /\ i < j
    /\ snapshots[i].workspace = snapshots[j].workspace
    /\ snapshots[i].version = snapshots[j].version

\* C10: two snapshots of one workspace get the same version only when the
\* pushes that wrote them overlapped another push: the helper reads the
\* latest version and writes latest+1 in two separate store operations.
C10_CollisionOnlyByOverlap ==
    \A i, j \in DOMAIN snapshots :
        Collision(i, j) => snapOverlap[i] /\ snapOverlap[j]

\* C10 witness: a workspace has two snapshots with the same version N+1,
\* N >= 1, written by two pushes that both read the latest version N
C10_Witness ==
    \E i, j \in DOMAIN snapshots :
        /\ Collision(i, j)
        /\ snapshots[i].version > 1

\* call p is past its Secret.bulkWrite
Wrote(p) ==
    pc[p] \in {"insertUpdatedVersions", "insertSecrets", "insertAddedVersions",
               "snapFindSecrets", "snapFindLatest", "snapSave"}

\* the ids that the bulkWrite of call p updates
UpdatedIds(p) ==
    {oldSecretsObj(oldSecrets[p])[e.hashKey].id : e \in Range(ToUpdateOf(p))}

\* the value-hash that the bulkWrite of call p leaves in the secret `id`:
\* that of its last operation on the id
WrittenValue(p, id) ==
    LET upd == ToUpdateOf(p)
        obj == oldSecretsObj(oldSecrets[p])
        mine == {i \in DOMAIN upd : obj[upd[i].hashKey].id = id}
    IN  upd[CHOOSE i \in mine : \A j \in mine : j <= i].hashValue

\* calls p and q reconciled against the same stored state and both have
\* written an update of the secret `id`, with different values
BothUpdated(p, q, id) ==
    /\ p # q
    /\ Wrote(p)
    /\ Wrote(q)
    /\ oldSecrets[p] = oldSecrets[q]
    /\ id \in UpdatedIds(p) \cap UpdatedIds(q)
    /\ WrittenValue(p, id) # WrittenValue(q, id)

\* C11: pushes are not mutually exclusive. The bulkWrite of a push leaves its
\* own value in every secret it updates, whatever another push wrote there
\* since the two read the store; so when two pushes that read the same state
\* have both updated one secret, the secret holds the value of one of them
\* only, its version went up twice, and neither push was stopped.
C11_LostUpdate ==
    /\ [][\A p \in Procs : BulkWrite(p) =>
             \A s \in Range(secrets') :
                 s.id \in UpdatedIds(p) =>
                     s.secretValueHash = WrittenValue(p, s.id)]_vars
    /\ [](\A p, q \in Procs : \A s \in Range(secrets) :
             BothUpdated(p, q, s.id) =>
                 /\ s.secretValueHash \in {WrittenValue(p, s.id), WrittenValue(q, s.id)}
                 /\ s.version = oldSecretsObj(oldSecrets[p])[s.secretKeyHash].version + 2)

\* C11 witness: two pushes that read the same state are both about to return,
\* both have updated the same secret with different values, the secret holds
\* the value of one, and the ledger has a row of the same version for each
C11_Witness ==
    \E p, q \in Procs : \E s \in Range(secrets) :
        /\ BothUpdated(p, q, s.id)
        /\ pc[p] = "snapSave"
        /\ pc[q] = "snapSave"
        /\ s.secretValueHash = WrittenValue(q, s.id)
        /\ s.secretValueHash # WrittenValue(p, s.id)
        /\ \E i, j \in DOMAIN versions :
              /\ versions[i].secret = s.id
              /\ versions[j].secret = s.id
              /\ versions[i].version = versions[j].version
              /\ versions[i].secretValueHash = WrittenValue(p, s.id)
              /\ versions[j].secretValueHash = WrittenValue(q, s.id)

\* row i of the ledger is flagged in this step, by a push that has deleted
\* the Secret it refers to
FlaggedByDelete(i) ==
    /\ versions'[i] = [versions[i] EXCEPT !.isDeleted = TRUE]
    /\ \E p \in Procs :
          /\ FlagVersions(p)
          /\ versions[i].secret \in Range(ToDeleteOf(p))
    /\ \A s \in Range(secrets) : s.id # versions[i].secret

\* C12: the version ledger is append-only. No step removes a SecretVersion
\* row; a row that exists keeps its place, its secret reference, version
\* number and key/value material; the one change made to a row is isDeleted
\* set to true by the push that hard-deleted its Secret, and isDeleted never
\* returns to false.
C12_LedgerAppendOnly ==
    [][ /\ Len(versions') >= Len(versions)
        /\ \A i \in DOMAIN versions :
              \/ versions'[i] = versions[i]
              \/ FlaggedByDelete(i) ]_vars

\* C12 witness: a delete has flagged a row and rows were appended after it
C12_Witness ==
    \E i, j \in DOMAIN versions :
        /\ i < j
        /\ versions[i].isDeleted
        /\ ~versions[j].isDeleted
        /\ versions[j].secret # versions[i].secret

\* the state pullSecrets returned to the push that finished last
LastOld ==
    pullSecrets(last.before.secrets, last.args.userId, last.args.workspaceId,
                last.args.environment)

\* the rows that the push that finished last appended for the Secret `id`
AppendedFor(id) ==
    Cardinality({i \in DOMAIN versions :
                    /\ i > Len(last.before.versions)
                    /\ versions[i].secret = id})

\* number of update operations of the push that finished last on `id`
UpdatesOn(id) ==
    LET upd == toUpdate(LastOld, last.args.secrets)
    IN  Cardinality({i \in DOMAIN upd :
                        oldSecretsObj(LastOld)[upd[i].hashKey].id = id})

\* the Secret `id` was inserted by the push that finished last
CreatedByLast(id) ==
    /\ \E s \in Range(secrets) : s.id = id
    /\ \A s \in Range(last.before.secrets) : s.id # id

\* the Secret `id` was hard-deleted by the push that finished last
DeletedByLast(id) == id \in Range(toDelete(LastOld, last.args.secrets))

B2N(b) == IF b THEN 1 ELSE 0

\* C13 (as claimed): a push appends one SecretVersion row for every Secret it
\* creates, one for every update it makes and one for every Secret it
\* hard-deletes.
C13_EveryChangeAppendsVersion ==
    PushReturned =>
        \A id \in 1..(nextId - 1) :
            AppendedFor(id) =
                B2N(CreatedByLast(id)) + UpdatesOn(id) + B2N(DeletedByLast(id))

\* C13 (amended): a push that returns normally appends one SecretVersion row
\* for every Secret it creates and one for every update it makes, and
\* nothing else; for a Secret it hard-deletes it appends no row: the rows
\* the Secret had are all there, flagged isDeleted.
C13_CreateAndUpdateAppendVersion ==
    PushReturned =>
        /\ \A id \in 1..(nextId - 1) :
              AppendedFor(id) = B2N(CreatedByLast(id)) + UpdatesOn(id)
        /\ \A i \in DOMAIN last.before.versions :
              DeletedByLast(versions[i].secret) =>
                  versions[i] = [last.before.versions[i] EXCEPT !.isDeleted = TRUE]
        /\ Len(versions) = Len(last.before.versions)
                           + Len(toUpdate(LastOld, last.args.secrets))
                           + Len(toAdd(LastOld, last.args.secrets))

\* C13 witness: a push that hard-deleted one Secret and updated another has
\* returned
C13_Witness ==
    /\ PushReturned
    /\ toDelete(LastOld, last.args.secrets) # <<>>
    /\ toUpdate(LastOld, last.args.secrets) # <<>>

\* C14: snapshots are immutable copies. No step removes a SecretSnapshot or
\* changes the workspace, version or secret list of one that exists,
\* whatever the step deletes, updates or adds in the Secret collection.
C14_SnapshotsImmutable ==
    [][ /\ Len(snapshots') >= Len(snapshots)
        /\ \A i \in DOMAIN snapshots : snapshots'[i] = snapshots[i] ]_vars

\* C14 witness: two snapshots list the same Secret with different contents
\* (it was updated after the first was taken) and the Secret is gone from
\* the Secret collection (it was deleted after the second was taken)
C14_Witness ==
    \E i, j \in DOMAIN snapshots :
        /\ i < j
        /\ \E d \in Range(snapshots[i].secrets), e \in Range(snapshots[j].secrets) :
              /\ d.id = e.id
              /\ d.secretValueHash # e.secretValueHash
              /\ \A s \in Range(secrets) : s.id # d.id

\* C15 (as claimed): when the read of the prior snapshot or the write of the
\* new one fails, the push fails and its caller gets the snapshot failure,
\* which is not the error it gets for a failed fetch, delete, update or
\* insert.
C15_SnapshotFailureDistinct ==
    (PushThrew /\ last.at \in {"snapFindLatest", "snapSave"}) =>
        /\ last.error = SnapshotError
        /\ last.error # Thrown("bulkWrite")

\* decryptSecrets has returned
Decrypted(format) == dState = "returned" /\ dArgs.format = format

\* what the entries of the call were made from: plaintext key and value
PlainKeyOf(s) == s.ciphertextKey[2]
PlainValueOf(s) == s.ciphertextValue[2]

\* the line '<key>=<value>' of an entry
LineOf(s) == <<PlainKeyOf(s), "=", PlainValueOf(s)>>

\* lines joined by newlines
RECURSIVE JoinLines(_)
JoinLines(entries) ==
    IF entries = <<>> THEN <<>>
    ELSE IF Len(entries) = 1 THEN LineOf(entries[1])
    ELSE (LineOf(entries[1]) \o <<Newline>>) \o JoinLines(Tail(entries))

\* C16 (as claimed): for format 'text' decryptSecrets returns the lines
\* '<key>=<value>' of the entries, in input order, with a newline between
\* consecutive lines only: n-1 newlines for n >= 1 entries, the empty string
\* for none.
C16_TextIsJoinedLines ==
    Decrypted("text") =>
        /\ content = JoinLines(dArgs.secrets)
        /\ Cardinality({i \in DOMAIN content : content[i] = Newline})
              = IF dArgs.secrets = <<>> THEN 0 ELSE Len(dArgs.secrets) - 1

\* C17: for format 'object' decryptSecrets returns a mapping whose keys are
\* the decrypted keys of the entries, each mapped to the decrypted value of
\* the last entry, in input order, that decrypts to that key.
C17_ObjectLastWins ==
    Decrypted("object") =>
        /\ DOMAIN content = {PlainKeyOf(dArgs.secrets[i]) : i \in DOMAIN dArgs.secrets}
        /\ \A i \in DOMAIN dArgs.secrets :
              (\A j \in DOMAIN dArgs.secrets :
                  PlainKeyOf(dArgs.secrets[j]) = PlainKeyOf(dArgs.secrets[i]) => j <= i)
              => content[PlainKeyOf(dArgs.secrets[i])] = PlainValueOf(dArgs.secrets[i])

\* C17 witness: decryptSecrets returned the object for a list in which two
\* entries decrypt to the same key with different values, and a third entry
\* to another key
C17_Witness ==
    /\ Decrypted("object")
    /\ Cardinality(DOMAIN content) = 2
    /\ \E i, j \in DOMAIN dArgs.secrets :
          /\ i < j
          /\ PlainKeyOf(dArgs.secrets[i]) = PlainKeyOf(dArgs.secrets[j])
          /\ PlainValueOf(dArgs.secrets[i]) # PlainValueOf(dArgs.secrets[j])
          /\ content[PlainKeyOf(dArgs.secrets[j])] = PlainValueOf(dArgs.secrets[j])

\* the rows that the push that finished last appended, oldest first
AppendedRows == SubSeq(versions, Len(last.before.versions) + 1, Len(versions))

\* the row carries the key and value material of the batch entry
RowOfEntry(r, e) ==
    /\ r.secretKeyCiphertext = e.ciphertextKey
    /\ r.secretKeyIV = e.ivKey
    /\ r.secretKeyTag = e.tagKey
    /\ r.secretKeyHash = e.hashKey
    /\ r.secretValueCiphertext = e.ciphertextValue
    /\ r.secretValueIV = e.ivValue
    /\ r.secretValueTag = e.tagValue
    /\ r.secretValueHash = e.hashValue

\* the push that finished last did to the stored Secret o what the Update
\* step is to do for the batch entry e
UpdatedAsClaimed(e, o) ==
    /\ \E s \in Range(secrets) :
          /\ s.id = o.id
          /\ s.secretValueCiphertext = e.ciphertextValue
          /\ s.secretValueIV = e.ivValue
          /\ s.secretValueTag = e.tagValue
          /\ s.secretValueHash = e.hashValue
          /\ s.version = o.version + 1
          /\ e.type = SECRET_PERSONAL => s.user = last.args.userId
          /\ \A r \in Range(AppendedRows) :
                r.secret = o.id => (r.version = s.version /\ RowOfEntry(r, e))
    /\ AppendedFor(o.id) = 1
    /\ \A j \in DOMAIN last.before.versions :
          last.before.versions[j].secret = o.id =>
              versions[j] = last.before.versions[j]

\* C18 (as claimed): for every batch entry that the push classifies as an
\* update, the stored Secret keeps its id, has the entry's value ciphertext,
\* IV, tag and hash, its version is one more than before (and its owner is
\* the pushing user when the entry is personal), exactly one SecretVersion
\* row was appended for it, carrying the Secret's new version, and the rows
\* it had before are as they were.
C18_UpdateStep ==
    PushReturned =>
        \A e \in Range(toUpdate(LastOld, last.args.secrets)) :
            UpdatedAsClaimed(e, oldSecretsObj(LastOld)[e.hashKey])

\* the Secrets that the push that finished last was to delete: those it
\* pulled whose key-hash is not in its batch
AbsentFromBatch ==
    {s \in Range(LastOld) :
        s.secretKeyHash \notin KeyHashesOfBatch(last.args.secrets)}

\* C19: a push that returns has hard-deleted every Secret of the caller's
\* scope whose key-hash is absent from the batch; every SecretVersion row of
\* a deleted Secret is still in the ledger, in its place, with isDeleted true
\* and nothing else changed; after an empty batch no Secret of the scope is
\* left and the snapshot the push took lists none of them.
C19_DeleteStep ==
    PushReturned =>
        /\ \A d \in AbsentFromBatch :
              /\ \A s \in Range(secrets) : s.id # d.id
              /\ \A j \in DOMAIN last.before.versions :
                    last.before.versions[j].secret = d.id =>
                        versions[j] = [last.before.versions[j] EXCEPT !.isDeleted = TRUE]
              /\ \A r \in Range(versions) : r.secret = d.id => r.isDeleted
        /\ Len(versions) >= Len(last.before.versions)
        /\ last.args.secrets = <<>> =>
              /\ VisibleTo(secrets, last.args.userId, last.args.workspaceId,
                           last.args.environment) = {}
              /\ \A d \in Range(LastOld) :
                    \A s \in Range(snapshots[Len(snapshots)].secrets) : s.id # d.id

\* C19 witness: an empty batch was pushed to a scope that held two Secrets,
\* while another environment of the workspace holds one: the two are gone,
\* their rows are flagged, and the snapshot lists the one of the other
\* environment only
C19_Witness ==
    /\ PushReturned
    /\ last.args.secrets = <<>>
    /\ Cardinality(AbsentFromBatch) = 2
    /\ \E r \in Range(versions) : r.isDeleted
    /\ Len(snapshots[Len(snapshots)].secrets) = 1
    /\ snapshots[Len(snapshots)].secrets[1].environment # last.args.environment

\* the Secrets that the push that finished last inserted, oldest first
InsertedByLast ==
    SelectSeq(secrets, LAMBDA s :
        \A o \in Range(last.before.secrets) : o.id # s.id)

\* the batch entries of the push that finished last whose key-hash was not
\* stored in the caller's scope
NotStored ==
    SelectSeq(last.args.secrets, LAMBDA e :
        \A o \in Range(LastOld) : o.secretKeyHash # e.hashKey)

\* the Secret s is what the Add step is to insert for the batch entry e
AddedAsClaimed(s, e) ==
    /\ s.workspace = last.args.workspaceId
    /\ s.environment = last.args.environment
    /\ s.type = e.type
    /\ s.version = 1
    /\ s.user = (IF e.type = SECRET_PERSONAL THEN last.args.userId ELSE NoUser)
    /\ RowOfEntry(s, e)
    /\ AppendedFor(s.id) = 1
    /\ \A r \in Range(AppendedRows) :
          r.secret = s.id =>
              /\ r.version = 1
              /\ ~r.isDeleted
              /\ RowOfEntry(r, e)

\* nothing of workspace w was stored when the push that finished last began
EmptyBefore(w) ==
    /\ \A s \in Range(last.before.secrets) : s.workspace # w
    /\ \A s \in Range(last.before.snapshots) : s.workspace # w

\* C20: a push that returns has inserted one Secret for every batch entry
\* whose key-hash was not stored in the caller's scope, and no other: in the
\* pushed workspace and environment, with the entry's type and material, at
\* version 1, the owner being the pushing user exactly when the type is
\* personal; and it appended one SecretVersion row for each, version 1,
\* isDeleted false. One new entry pushed to an empty workspace leaves one
\* Secret at version 1, one SecretVersion row at version 1 and one
\* SecretSnapshot at version 1 there.
C20_AddStep ==
    PushReturned =>
        /\ Len(InsertedByLast) = Len(NotStored)
        /\ \A i \in DOMAIN NotStored : AddedAsClaimed(InsertedByLast[i], NotStored[i])
        /\ (Len(last.args.secrets) = 1 /\ EmptyBefore(last.args.workspaceId)) =>
              LET w == last.args.workspaceId
                  mine == SelectSeq(secrets, LAMBDA s : s.workspace = w)
              IN  /\ Len(mine) = 1
                  /\ mine[1].version = 1
                  /\ Len(RowsOf(mine[1].id)) = 1
                  /\ RowsOf(mine[1].id)[1].version = 1
                  /\ Len(SnapshotsOf(w)) = 1
                  /\ SnapshotsOf(w)[1].version = 1

\* C20 witness: a push to a store that already held a Secret has inserted a
\* personal and a shared Secret
C20_Witness ==
    /\ PushReturned
    /\ last.before.secrets # <<>>
    /\ \E i, j \in DOMAIN InsertedByLast :
          /\ InsertedByLast[i].type = SECRET_PERSONAL
          /\ InsertedByLast[i].user = last.args.userId
          /\ InsertedByLast[j].type = SECRET_SHARED
          /\ InsertedByLast[j].user = NoUser

\* the entries of a submitted batch whose key and value ciphertexts are both
\* non-empty, in the submitted order
RECURSIVE NonEmptyEntries(_)
NonEmptyEntries(batch) ==
    IF batch = <<>> THEN <<>>
    ELSE IF Len(Head(batch).secretKeyCiphertext) > 0
            /\ Len(Head(batch).secretValueCiphertext) > 0
         THEN <<Head(batch)>> \o NonEmptyEntries(Tail(batch))
         ELSE NonEmptyEntries(Tail(batch))

\* C21: pushWorkspaceSecrets calls push only for an environment that is one
\* of the workspace's, and passes it the submitted entries whose key and
\* value ciphertexts are both non-empty, in the submitted order, for the
\* submitted user, workspace and environment; with an unknown environment it
\* throws, push is not called and the store is as it was.
C21_ControllerSanitizes ==
    /\ ctl.outcome = "push" =>
          /\ \E i \in DOMAIN ctl.req.workspaceEnvs :
                ctl.req.workspaceEnvs[i].slug = ctl.req.environment
          /\ ctl.passed = NonEmptyEntries(ctl.req.secrets)
          /\ \A p \in Procs : pc[p] # "idle" =>
                /\ Len(args[p].secrets) = Len(ctl.passed)
                /\ \A i \in DOMAIN ctl.passed :
                      /\ args[p].secrets[i].hashKey = ctl.passed[i].secretKeyHash
                      /\ args[p].secrets[i].hashValue = ctl.passed[i].secretValueHash
                      /\ args[p].secrets[i].ciphertextKey # EmptyText
                      /\ args[p].secrets[i].ciphertextValue # EmptyText
                /\ args[p].environment = ctl.req.environment
                /\ args[p].workspaceId = ctl.req.workspaceId
                /\ args[p].userId = ctl.req.user
    /\ ctl.outcome = EnvironmentError =>
          /\ \A i \in DOMAIN ctl.req.workspaceEnvs :
                ctl.req.workspaceEnvs[i].slug # ctl.req.environment
          /\ Idle
          /\ StoreNow = ctl.before

\* C21 witness: push is running on the two entries, in order, that are left
\* of a batch of three with an empty ciphertext in the middle, a request
\* for an unknown environment having been refused before
C21_Witness ==
    /\ ctl.outcome = "push"
    /\ Len(ctl.req.secrets) = 3
    /\ Len(ctl.passed) = 2
    /\ ctl.passed[1] = ctl.req.secrets[1]
    /\ ctl.passed[2] = ctl.req.secrets[3]
    /\ pc["p1"] = "insertSecrets"
    /\ started = 3
    /\ okPushes["w1"] = 1

\* what pullSecrets returns to the caller of the push that finished last,
\* called right after it
PulledAfterLast ==
    pullSecrets(secrets, last.args.userId, last.args.workspaceId,
                last.args.environment)

\* C22 (as claimed): after a push of a batch with pairwise distinct
\* key-hashes that ran alone and returned, pullSecrets for the same user,
\* workspace and environment returns one secret per batch entry, and the
\* (key-hash, value-hash, type) triples of the secrets are those of the
\* entries.
C22_PushPullRoundTrip ==
    (PushReturned /\ NoRepeat(KeySeqOfBatch(last.args.secrets))) =>
        /\ Len(PulledAfterLast) = Len(last.args.secrets)
        /\ {<<s.secretKeyHash, s.secretValueHash, s.type>> : s \in Range(PulledAfterLast)}
              = {<<e.hashKey, e.hashValue, e.type>> : e \in Range(last.args.secrets)}

\* the Secret was in the scope of the push that finished last when it began:
\* in its workspace and environment, shared or personal of its user
InScopeOfLast(s) ==
    /\ s.workspace = last.args.workspaceId
    /\ s.environment = last.args.environment
    /\ \/ s.type = SECRET_SHARED
       \/ s.type = SECRET_PERSONAL /\ s.user = last.args.userId

\* C23: a push that ran alone leaves every Secret outside its scope (another
\* workspace, another environment, a personal secret of another user) in the
\* Secret collection as it was, and the SecretVersion rows of those Secrets
\* as they were; the Secrets it deleted or changed are among those that
\* pullSecrets returned to it.
C23_ScopeIsolation ==
    (Idle /\ last.args # NoArgs) =>
        /\ \A s \in Range(last.before.secrets) :
              ~InScopeOfLast(s) =>
                  /\ s \in Range(secrets)
                  /\ \A j \in DOMAIN last.before.versions :
                        last.before.versions[j].secret = s.id =>
                            versions[j] = last.before.versions[j]
        /\ \A s \in Range(last.before.secrets) :
              s \notin Range(secrets) => s \in Range(LastOld)

\* C23 witness: a push that deleted a Secret of its scope has returned, and
\* the store held, and holds, a personal Secret of another user in the same
\* environment whose key-hash is not in the batch either, and a Secret of
\* another environment or workspace
C23_Witness ==
    /\ PushReturned
    /\ toDelete(LastOld, last.args.secrets) # <<>>
    /\ \E s \in Range(last.before.secrets) :
          /\ s.workspace = last.args.workspaceId
          /\ s.environment = last.args.environment
          /\ s.type = SECRET_PERSONAL
          /\ s.user # last.args.userId
          /\ s.secretKeyHash \notin KeyHashesOfBatch(last.args.secrets)
          /\ s \in Range(secrets)
    /\ \E s \in Range(last.before.secrets) :
          /\ (s.workspace # last.args.workspaceId
                \/ s.environment # last.args.environment)
          /\ s \in Range(secrets)

\* C24 (as claimed): at most one MachineMembership is stored per machine
\* identity and workspace, overlapping requests included; and a request
\* that passed the permission checks and ends while its pair has a
\* membership ends with a bad-request error and has stored nothing.
C24_MembershipUnique ==
    /\ \A i, j \in DOMAIN machineMemberships :
          ( /\ machineMemberships[i].machineIdentity = machineMemberships[j].machineIdentity
            /\ machineMemberships[i].workspace = machineMemberships[j].workspace )
          => i = j
    /\ \A p \in Procs :
          ( /\ mres[p].existed
            /\ mres[p].error \notin {"ForbiddenError", "ForbiddenRequestError"} )
          => /\ mres[p].error = "BadRequestError"
             /\ ~mres[p].created

====
